---- MODULE Spec2Model ----
(***************************************************************************)
(* Model of api/index.py: the /extract-bill-data endpoint.  One request is *)
(* followed from the credential check through the document download, the  *)
(* construction of the model payload, the retry loop around the model     *)
(* call, the schema validation and the aggregation of the line items.     *)
(*                                                                         *)
(* Amounts are exact decimals counted in thousandths (1004 is 1.004), so   *)
(* round(x, 2) is rounding to a multiple of 10; the binary representation  *)
(* error of Python floats is not modelled.                                 *)
(*                                                                         *)
(* pydantic's model_json_schema() returns a dict, on which the json.loads  *)
(* of line 116 raises TypeError: with schemaIsText = FALSE the request     *)
(* ends there, before the first model call.  schemaIsText = TRUE follows   *)
(* the rest of the function as it runs once that call is given text.      *)
(***************************************************************************)
EXTENDS Integers, Sequences, FiniteSets, TLC

VARIABLES
    apiKey,        \* API_KEY is a non-empty string
    schemaIsText,  \* model_json_schema() gives json.loads (line 116) text, not a dict
    fetchReply,    \* how the document server answers the GET
    script,        \* how the model service answers the 1st, 2nd, ... POST
    pc,            \* position of the request in the handler
    fetches,       \* document GETs performed
    calls,         \* model POSTs performed
    attempt,       \* loop variable of the retry loop
    response,      \* local variable `response` of extract_data_with_llm
    slept,         \* delays passed to time.sleep, in order
    mimeType,      \* mime_type sent to the model
    llm_output,    \* value returned by extract_data_with_llm
    result,        \* what the endpoint answers
    responses      \* answers given by the endpoint

vars == <<apiKey, schemaIsText, fetchReply, script, pc, fetches, calls, attempt,
          response, slept, mimeType, llm_output, result, responses>>

----------------------------------------------------------------------------
(* Bounds of the model *)

\* longest bill_items list of a page in the documents explored
MaxItems == 2

\* page_no labels; a document has one page per label of a prefix of this list
PageLabels == <<"1", "2">>

----------------------------------------------------------------------------
(* Strings that the code inspects are sequences of characters *)

ImagePrefix == <<"i","m","a","g","e","/">>

PdfPrefix == <<"a","p","p","l","i","c","a","t","i","o","n","/","p","d","f">>

\* response.headers.get('Content-Type', 'image/jpeg')
DefaultContentType == ImagePrefix \o <<"j","p","e","g">>

\* no Content-Type header in the answer
NoHeader == <<>>

ContentTypes ==
    { ImagePrefix \o <<"p","n","g">>,
      PdfPrefix,
      PdfPrefix \o <<";","q">>,
      <<"t","e","x","t","/","h","t","m","l">>,
      <<"i","m","a","g","e">> }

\* str.startswith
StartsWith(s, p) == Len(s) >= Len(p) /\ SubSeq(s, 1, Len(p)) = p

\* a download that checks no content type at all
SupportedType_any(ct) == TRUE

\* line 69, negated: the types _download_file_to_base64 lets through
SupportedType(ct) == StartsWith(ct, ImagePrefix) \/ StartsWith(ct, PdfPrefix)

\* s cut before its first character that is in stops
CutAt(s, stops) ==
    LET at == {i \in 1..Len(s) : s[i] \in stops}
    IN  IF at = {} THEN s
        ELSE SubSeq(s, 1, (CHOOSE i \in at : \A j \in at : i <= j) - 1)

\* lines 75, 94-95: "data:<ct>;base64,<b64>" is cut at its first ',', what
\* follows "data:" is cut at the next ':', and that at its first ';': the
\* content type up to its first ',', ':' or ';'
MimeOf(ct) == CutAt(ct, {",", ":", ";"})

----------------------------------------------------------------------------
(* JSON values as the model service may emit them *)

JNum(n) == [t |-> "num", n |-> n, s |-> ""]

\* a JSON string holding the decimal text of n
JNumStr(n) == [t |-> "numstr", n |-> n, s |-> ""]

JStr(s) == [t |-> "str", n |-> 0, s |-> s]

\* the key is missing from its object
Absent == [t |-> "absent", n |-> 0, s |-> ""]

\* pydantic float field: numbers, and strings that parse as numbers
IsFloat(v) == v.t \in {"num", "numstr"}

\* pydantic str field
IsStr(v) == v.t \in {"str", "numstr"}

\* the three classifications named in the prompt (line 102) and in the
\* description of page_type (line 30)
PageTypes == {"Bill Detail", "Final Bill", "Pharmacy"}

----------------------------------------------------------------------------
(* The JSON document generated by the model (LLMExtractionOutput, raw) *)

GoodItem(a) ==
    [item_name |-> JStr("A"), item_amount |-> JNum(a),
     item_rate |-> JNum(1000), item_quantity |-> JNum(1000)]

\* 1.004; -2.505 written as a string; 7.000 without item_rate
Items ==
    { GoodItem(1004),
      [GoodItem(0) EXCEPT !.item_amount = JNumStr(-2505)],
      [GoodItem(7000) EXCEPT !.item_rate = Absent] }

\* page_type values tried: inside the enumeration, outside it, key missing
SamplePageTypes == {JStr("Bill Detail"), JStr("Summary"), Absent}

\* document_final_total values tried
SampleTotals == {JNum(999990), JNum(0), Absent}

ItemLists(maxItems) == UNION {[1..n -> Items] : n \in 0..maxItems}

PagesFor(label, maxItems) ==
    { [page_no |-> JStr(label), page_type |-> ty, bill_items |-> its] :
        ty \in SamplePageTypes, its \in ItemLists(maxItems) }

\* documents of n pages, the i-th labelled labels[i]
RECURSIVE PageLists(_, _, _)
PageLists(labels, n, maxItems) ==
    IF n = 0 THEN {<<>>}
    ELSE { Append(ps, p) : ps \in PageLists(labels, n - 1, maxItems),
                           p \in PagesFor(labels[n], maxItems) }

Extractions(labels, maxItems) ==
    { [pagewise_line_items |-> ps, document_final_total |-> tot] :
        ps \in UNION {PageLists(labels, n, maxItems) : n \in 0..Len(labels)},
        tot \in SampleTotals }

----------------------------------------------------------------------------
(* Schema validation: the LLMExtractionOutput built at line 186 *)

\* a BillItem whose item_rate may be left out
ItemValid_rateOptional(it) ==
    /\ IsStr(it.item_name)
    /\ IsFloat(it.item_amount)
    /\ IsFloat(it.item_quantity)

\* BillItem: four required fields
ItemValid(it) ==
    /\ IsStr(it.item_name)
    /\ IsFloat(it.item_amount)
    /\ IsFloat(it.item_rate)
    /\ IsFloat(it.item_quantity)

\* PagewiseLineItem: page_type is any str
PageValid(p) ==
    /\ IsStr(p.page_no)
    /\ IsStr(p.page_type)
    /\ \A i \in 1..Len(p.bill_items) : ItemValid(p.bill_items[i])

\* LLMExtractionOutput
DocValid(doc) ==
    /\ IsFloat(doc.document_final_total)
    /\ \A i \in 1..Len(doc.pagewise_line_items) :
          PageValid(doc.pagewise_line_items[i])

\* the typed value of a validated float field
FloatOf(v) == v.n

\* the validated BillItem: float fields hold floats
TypedItem(it) ==
    [item_name |-> it.item_name,
     item_amount |-> JNum(FloatOf(it.item_amount)),
     item_rate |-> JNum(FloatOf(it.item_rate)),
     item_quantity |-> JNum(FloatOf(it.item_quantity))]

TypedPage(p) ==
    [page_no |-> p.page_no, page_type |-> p.page_type,
     bill_items |-> [i \in 1..Len(p.bill_items) |-> TypedItem(p.bill_items[i])]]

----------------------------------------------------------------------------
(* Aggregation, lines 191-207, and rounding, line 215 *)

\* round(x, 2) on thousandths, ties to the even hundredth
Round2(x) ==
    LET q == x \div 10
        r == x % 10
    IN  IF r < 5 THEN 10 * q
        ELSE IF r > 5 THEN 10 * (q + 1)
        ELSE IF q % 2 = 0 THEN 10 * q ELSE 10 * (q + 1)

\* lines 197-202: page_sum after the inner loop, started from acc
RECURSIVE PageSum(_, _)
PageSum(items, acc) ==
    IF items = <<>> THEN acc
    ELSE PageSum(Tail(items), acc + FloatOf(Head(items).item_amount))

\* lines 191, 196-205: cumulative_extracted_total after the outer loop
RECURSIVE CumulativeTotal(_, _)
CumulativeTotal(pages, acc) ==
    IF pages = <<>> THEN acc
    ELSE CumulativeTotal(Tail(pages), acc + PageSum(Head(pages).bill_items, 0))

\* a counter that counts the pages
CumulativeItemCount_pages(pages, acc) == acc + Len(pages)

\* lines 192, 196-202: cumulative_item_count after the outer loop
RECURSIVE CumulativeItemCount(_, _)
CumulativeItemCount(pages, acc) ==
    IF pages = <<>> THEN acc
    ELSE CumulativeItemCount(Tail(pages), acc + Len(Head(pages).bill_items))

\* a handler that reports the total the model wrote
FinalTotalExtracted_reported(doc) == Round2(FloatOf(doc.document_final_total))

\* line 215
FinalTotalExtracted(doc) == Round2(CumulativeTotal(doc.pagewise_line_items, 0))

\* lines 193, 207: pagewise_output
PagewiseOutput(doc) ==
    [i \in 1..Len(doc.pagewise_line_items) |-> TypedPage(doc.pagewise_line_items[i])]

----------------------------------------------------------------------------
(* Answers of the two remote services *)

\* requests.get: an answer with a status below 400, or a RequestException
\* (raise_for_status on 4xx/5xx; connection error or timeout)
FetchReplies ==
    { [kind |-> "ok", ctype |-> ct] : ct \in ContentTypes \cup {NoHeader} }
      \cup { [kind |-> k, ctype |-> NoHeader] : k \in {"http_error", "network_error"} }

\* 200, candidates[0].content.parts[0].text is JSON text
Ok200 == [status |-> 200, body |-> "extraction"]

\* 200, a JSON body without 'candidates'
Malformed200 == [status |-> 200, body |-> "malformed"]

\* 429 with a JSON object as body
RateLimited == [status |-> 429, body |-> "json"]

\* 429 with a body that is not JSON
RateLimitedText == [status |-> 429, body |-> "text"]

\* 403 with a JSON object as body
Forbidden == [status |-> 403, body |-> "json"]

\* requests.post raised without an answer (connection error, timeout);
\* also the value None of `response`
NoReply == [status |-> 0, body |-> "none"]

Replies == {Ok200, Malformed200, RateLimited, RateLimitedText, Forbidden, NoReply}

\* usageMetadata of a 200 answer: missing counts, or counts 3 and 4
UsageMetadatas ==
    { [promptTokenCount |-> Absent, candidatesTokenCount |-> Absent],
      [promptTokenCount |-> JNum(3), candidatesTokenCount |-> JNum(4)] }

\* dict.get(key, 0)
GetOr0(v) == IF v = Absent THEN 0 ELSE v.n

\* lines 140-150
TokenUsageOf(meta) ==
    [input_tokens |-> GetOr0(meta.promptTokenCount),
     output_tokens |-> GetOr0(meta.candidatesTokenCount),
     total_tokens |-> GetOr0(meta.promptTokenCount) + GetOr0(meta.candidatesTokenCount)]

\* documents the model generates in a whole request: at most one page of at
\* most one item
SampleDocs == Extractions(<<"1">>, 1)

----------------------------------------------------------------------------
(* Values of the endpoint *)

ZeroUsage == [input_tokens |-> 0, output_tokens |-> 0, total_tokens |-> 0]

NoData ==
    [pagewise_line_items |-> <<>>, final_total_extracted |-> 0,
     total_item_count |-> 0, sub_total_extracted |-> "None"]

\* HTTPException(status_code, detail)
Error(status, detail) ==
    [is_success |-> FALSE, status |-> status, detail |-> detail,
     token_usage |-> ZeroUsage, data |-> NoData]

\* nothing answered yet
NoResult == Error(0, "")

\* extract_data_with_llm has not returned
NoOutput ==
    [extracted_data |-> [pagewise_line_items |-> <<>>, document_final_total |-> Absent],
     token_usage |-> ZeroUsage]

\* lines 210-218, status_code=200 of line 174
Success(out) ==
    [is_success |-> TRUE, status |-> 200, detail |-> "",
     token_usage |-> out.token_usage,
     data |-> [pagewise_line_items |-> PagewiseOutput(out.extracted_data),
               final_total_extracted |-> FinalTotalExtracted(out.extracted_data),
               total_item_count |->
                   CumulativeItemCount(out.extracted_data.pagewise_line_items, 0),
               sub_total_extracted |-> "None"]]

\* lines 186-232 as a function of llm_output: a ValidationError is no
\* HTTPException and reaches the handler of line 225
HandlerResponse(out) ==
    IF DocValid(out.extracted_data) THEN Success(out)
    ELSE Error(500, "UNCAUGHT SERVER ERROR")

----------------------------------------------------------------------------
(* The retry loop *)

\* a loop of one attempt more
max_retries_four == 3 + 1

\* line 122
max_retries == 3

RECURSIVE Pow2(_)
Pow2(n) == IF n = 0 THEN 1 ELSE 2 * Pow2(n - 1)

\* line 154
RetryAllowed(resp, att) ==
    resp # NoReply /\ resp.status = 429 /\ att < max_retries - 1

\* lines 161-162; response.json() of a body that is not JSON raises inside
\* the except clause and reaches the handler of line 225
LLMError(resp) ==
    IF resp = NoReply THEN Error(500, "LLM API Error")
    ELSE IF resp.body = "json" THEN Error(resp.status, "LLM API Error")
    ELSE Error(500, "UNCAUGHT SERVER ERROR")

----------------------------------------------------------------------------
(* The request *)

Init ==
    /\ apiKey \in BOOLEAN
    /\ schemaIsText \in BOOLEAN
    /\ fetchReply \in FetchReplies
    /\ script \in [1..max_retries -> Replies]
    /\ pc = "start"
    /\ fetches = 0
    /\ calls = 0
    /\ attempt = 0
    /\ response = NoReply
    /\ slept = <<>>
    /\ mimeType = <<>>
    /\ llm_output = NoOutput
    /\ result = NoResult
    /\ responses = 0

\* the endpoint answers r (a return, or an HTTPException raised at 223/229)
Respond(r) ==
    /\ result' = r
    /\ responses' = responses + 1
    /\ pc' = "done"

\* a credential check that lets the request go on without a key
CheckApiKey_ignored ==
    /\ pc = "start"
    /\ pc' = "download"
    /\ UNCHANGED <<apiKey, schemaIsText, fetchReply, script, fetches, calls,
                   attempt, response, slept, mimeType, llm_output, result, responses>>

\* lines 89-90
CheckApiKey ==
    /\ pc = "start"
    /\ IF ~apiKey
         THEN Respond(Error(500, "API_KEY is missing"))
         ELSE pc' = "download" /\ UNCHANGED <<result, responses>>
    /\ UNCHANGED <<apiKey, schemaIsText, fetchReply, script, fetches, calls,
                   attempt, response, slept, mimeType, llm_output>>

\* lines 62-83: the data URL's content type, or the HTTPException raised
DownloadFileToBase64(reply) ==
    IF reply.kind # "ok"
      THEN [raised |-> TRUE, error |-> Error(400, "DOCUMENT DOWNLOAD FAILED"),
            content_type |-> NoHeader]
      ELSE LET ct == IF reply.ctype = NoHeader THEN DefaultContentType ELSE reply.ctype
           IN  IF ~SupportedType(ct)
                 THEN [raised |-> TRUE, error |-> Error(400, "Unsupported file type"),
                       content_type |-> ct]
                 ELSE [raised |-> FALSE, error |-> NoResult, content_type |-> ct]

\* lines 93-95
Download ==
    /\ pc = "download"
    /\ fetches' = fetches + 1
    /\ LET got == DownloadFileToBase64(fetchReply)
       IN  IF got.raised
             THEN Respond(got.error) /\ UNCHANGED mimeType
             ELSE /\ mimeType' = MimeOf(got.content_type)
                  /\ pc' = "payload"
                  /\ UNCHANGED <<result, responses>>
    /\ UNCHANGED <<apiKey, schemaIsText, fetchReply, script, calls, attempt,
                   response, slept, llm_output>>

\* lines 98-123.  Line 116 passes LLMExtractionOutput.model_json_schema()
\* to json.loads, which raises TypeError unless it is given text; the
\* TypeError is no HTTPException and reaches the handler of line 225.
BuildPayload ==
    /\ pc = "payload"
    /\ IF schemaIsText
         THEN /\ attempt' = 0
              /\ response' = NoReply
              /\ pc' = "post"
              /\ UNCHANGED <<result, responses>>
         ELSE /\ Respond(Error(500, "UNCAUGHT SERVER ERROR"))
              /\ UNCHANGED <<attempt, response>>
    /\ UNCHANGED <<apiKey, schemaIsText, fetchReply, script, fetches, calls,
                   slept, mimeType, llm_output>>

\* lines 126-151: the attempt is answered 200 with a well-formed body
PostReturns ==
    /\ pc = "post"
    /\ script[attempt + 1] = Ok200
    /\ calls' = calls + 1
    /\ response' = script[attempt + 1]
    /\ \E doc \in SampleDocs, meta \in UsageMetadatas :
          llm_output' = [extracted_data |-> doc, token_usage |-> TokenUsageOf(meta)]
    /\ pc' = "validate"
    /\ UNCHANGED <<apiKey, schemaIsText, fetchReply, script, fetches, attempt,
                   slept, mimeType, result, responses>>

\* lines 126-137 and 163-165: 200 with a body of another shape
PostMalformed ==
    /\ pc = "post"
    /\ script[attempt + 1] = Malformed200
    /\ calls' = calls + 1
    /\ response' = script[attempt + 1]
    /\ Respond(Error(500, "LLM returned invalid or unexpected structure"))
    /\ UNCHANGED <<apiKey, schemaIsText, fetchReply, script, fetches, attempt,
                   slept, mimeType, llm_output>>

\* lines 126-132 and 153-162: requests.post or raise_for_status raises;
\* `response` keeps its old value when requests.post itself raised
PostRaises ==
    /\ pc = "post"
    /\ script[attempt + 1].status # 200
    /\ calls' = calls + 1
    /\ response' = IF script[attempt + 1] = NoReply THEN response
                   ELSE script[attempt + 1]
    /\ IF RetryAllowed(response', attempt)
         THEN pc' = "sleep" /\ UNCHANGED <<result, responses>>
         ELSE Respond(LLMError(response'))
    /\ UNCHANGED <<apiKey, schemaIsText, fetchReply, script, fetches, attempt,
                   slept, mimeType, llm_output>>

\* lines 156-158, then the loop head of line 124 and line 167 after the loop
Backoff ==
    /\ pc = "sleep"
    /\ slept' = Append(slept, Pow2(attempt))
    /\ IF attempt + 1 < max_retries
         THEN attempt' = attempt + 1 /\ pc' = "post" /\ UNCHANGED <<result, responses>>
         ELSE /\ Respond(Error(503, "LLM API failed after multiple retries"))
              /\ UNCHANGED attempt
    /\ UNCHANGED <<apiKey, schemaIsText, fetchReply, script, fetches, calls,
                   response, mimeType, llm_output>>

\* lines 186-232
Finish ==
    /\ pc = "validate"
    /\ Respond(HandlerResponse(llm_output))
    /\ UNCHANGED <<apiKey, schemaIsText, fetchReply, script, fetches, calls,
                   attempt, response, slept, mimeType, llm_output>>

Next ==
    \/ CheckApiKey
    \/ Download
    \/ BuildPayload
    \/ PostReturns
    \/ PostMalformed
    \/ PostRaises
    \/ Backoff
    \/ Finish

Spec == Init /\ [][Next]_vars

\* every step of a request is a statement, a bounded network call (timeouts
\* of 10 and 120) or a finite sleep: an enabled step is taken
FairSpec == Spec /\ WF_vars(Next)

----------------------------------------------------------------------------
(* The handler from line 186 on, over every document of the bounds *)

InitAgg ==
    /\ apiKey = TRUE
    /\ schemaIsText = TRUE
    /\ fetchReply = [kind |-> "ok", ctype |-> PdfPrefix]
    /\ script = [i \in 1..max_retries |-> Ok200]
    /\ pc = "validate"
    /\ fetches = 1
    /\ calls = 1
    /\ attempt = 0
    /\ response = Ok200
    /\ slept = <<>>
    /\ mimeType = MimeOf(PdfPrefix)
    /\ \E doc \in Extractions(PageLabels, MaxItems), meta \in UsageMetadatas :
          llm_output = [extracted_data |-> doc, token_usage |-> TokenUsageOf(meta)]
    /\ result = NoResult
    /\ responses = 0

NextAgg == Finish

SpecAgg == InitAgg /\ [][NextAgg]_vars

----------------------------------------------------------------------------
(* Properties *)

Doc == llm_output.extracted_data

Pages == Doc.pagewise_line_items

\* the items of all pages, in order
RECURSIVE AllItems(_)
AllItems(pages) ==
    IF pages = <<>> THEN <<>> ELSE Head(pages).bill_items \o AllItems(Tail(pages))

\* item_amount summed over a list of items
RECURSIVE SumAmounts(_)
SumAmounts(items) ==
    IF items = <<>> THEN 0
    ELSE SumAmounts(SubSeq(items, 1, Len(items) - 1)) + items[Len(items)].item_amount.n

ItemFields == {"item_name", "item_amount", "item_rate", "item_quantity"}

LacksField(it) == \E f \in ItemFields : it[f] = Absent

\* the content type the download works with
EffectiveType == IF fetchReply.ctype = NoHeader THEN DefaultContentType ELSE fetchReply.ctype

Fetched == fetches = 1 /\ fetchReply.kind = "ok"

\* C1: a successful response carries as final_total_extracted the sum of
\* item_amount over all items of all pages, rounded once to 2 decimals,
\* whatever document_final_total the model reported.
C1_AggregationCorrect ==
    (pc = "done" /\ result.is_success) =>
        result.data.final_total_extracted = Round2(SumAmounts(AllItems(Pages)))

\* C1 happens: two pages, one of them empty and one with two items, a sum
\* that rounding changes, a nonzero total that differs from the reported one
C1_Witness ==
    /\ pc = "done" /\ result.is_success
    /\ Len(Pages) = 2
    /\ Pages[1].bill_items = <<>>
    /\ Len(Pages[2].bill_items) = 2
    /\ SumAmounts(AllItems(Pages)) % 10 # 0
    /\ result.data.final_total_extracted # 0
    /\ result.data.final_total_extracted # Doc.document_final_total.n

\* C2: a successful response carries as total_item_count the number of
\* BillItem entries of all pages; a page without items adds 0.
C2_ItemCount ==
    (pc = "done" /\ result.is_success) =>
        result.data.total_item_count = Len(AllItems(Pages))

\* C2 happens: three items on two pages
C2_Witness ==
    /\ pc = "done" /\ result.is_success
    /\ Len(Pages) = 2
    /\ result.data.total_item_count = 3

C4_RetryThenSucceed ==
    ( /\ pc = "done"
      /\ apiKey
      /\ fetchReply.kind = "ok"
      /\ StartsWith(EffectiveType, ImagePrefix) \/ StartsWith(EffectiveType, PdfPrefix)
      /\ script[1].status = 429 /\ script[2].status = 429 /\ script[3] = Ok200
      /\ calls = 3 => DocValid(Doc) ) =>
        (result.is_success /\ slept = <<1, 2>> /\ calls = 3)

\* C5: without an API key the request does nothing but answer 500 "API_KEY
\* is missing": no document GET and no model POST is ever performed.
C5_MissingCredential ==
    ~apiKey =>
        /\ fetches = 0 /\ calls = 0
        /\ pc \in {"start", "done"}
        /\ pc = "done" =>
              (~result.is_success /\ result.status = 500
                 /\ result.detail = "API_KEY is missing")

\* C5 happens: a request without key has been answered
C5_Witness == ~apiKey /\ pc = "done" /\ responses = 1

\* C6 as stated: a fetched document whose declared type neither begins
\* with "image/" nor is exactly "application/pdf" is answered 400
\* "Unsupported file type" without any model call, and only such types
\* reach the model call.
C6_ContentTypeGate_Exact ==
    LET accepted == StartsWith(EffectiveType, ImagePrefix) \/ EffectiveType = PdfPrefix
    IN  /\ (pc = "done" /\ Fetched /\ ~accepted) =>
              (result.status = 400 /\ result.detail = "Unsupported file type" /\ calls = 0)
        /\ (pc \in {"payload", "post"} \/ calls > 0) => accepted

\* C6: a fetched document whose declared type begins neither with
\* "image/" nor with "application/pdf" is answered 400 "Unsupported file
\* type" without any model call, and only types beginning with "image/" or
\* "application/pdf" reach the model call.
C6_ContentTypeGate ==
    LET accepted == StartsWith(EffectiveType, ImagePrefix)
                      \/ StartsWith(EffectiveType, PdfPrefix)
    IN  /\ (Fetched /\ ~accepted) =>
              /\ calls = 0
              /\ pc = "done"
              /\ result.status = 400 /\ result.detail = "Unsupported file type"
        /\ (pc \in {"payload", "post"} \/ calls > 0) => accepted

\* C6 happens: text/html was fetched and refused
C6_Witness ==
    /\ pc = "done" /\ Fetched
    /\ fetchReply.ctype = <<"t","e","x","t","/","h","t","m","l">>
    /\ result.status = 400

\* C7: a document in which an item lacks a required field is answered with
\* status 500, without success and without any total or page computed from
\* the well-formed rest.
C7_SchemaRejection ==
    ( /\ pc = "done"
      /\ \E i \in 1..Len(Pages) : \E j \in 1..Len(Pages[i].bill_items) :
            LacksField(Pages[i].bill_items[j]) ) =>
        (~result.is_success /\ result.status = 500 /\ result.data = NoData)

\* C7 happens: a well-formed first page, and a second page with a
\* well-formed item followed by one without item_rate
C7_Witness ==
    /\ pc = "done"
    /\ Len(Pages) = 2
    /\ Len(Pages[1].bill_items) = 1 /\ ~LacksField(Pages[1].bill_items[1])
    /\ Len(Pages[2].bill_items) = 2 /\ ~LacksField(Pages[2].bill_items[1])
    /\ Pages[2].bill_items[2].item_rate = Absent
    /\ Pages[1].page_type.s \in PageTypes /\ Pages[2].page_type.s \in PageTypes
    /\ Doc.document_final_total.t = "num"
    /\ result.status = 500

Variant ==
    CASE pc = "start" -> 12
      [] pc = "download" -> 11
      [] pc = "payload" -> 10
      [] pc = "post" -> 2 * (3 - calls) + 3
      [] pc = "sleep" -> 2 * (3 - calls) + 4
      [] pc = "validate" -> 1
      [] OTHER -> 0

\* C10: a request performs at most one document GET and at most 3 model
\* POSTs, never answers twice, and terminates (it can always take a step
\* until it has answered, every step brings it closer to the answer, and
\* the answer is eventually given) with exactly one response, which is
\* either the success response or an error response.
C10_SingleResponse ==
    /\ [](/\ fetches <= 1 /\ calls <= 3 /\ responses <= 1
          /\ (pc = "done") <=> (responses = 1)
          /\ (pc = "done") =>
                \/ result.is_success /\ result.status = 200
                \/ ~result.is_success /\ result.status \in 400..599
          /\ (pc # "done") => ENABLED Next
          /\ Variant >= 0)
    /\ [][Variant' < Variant]_vars
    /\ <>(pc = "done")

\* C10 happens: a request answered after one GET and three POSTs
C10_Witness == pc = "done" /\ responses = 1 /\ fetches = 1 /\ calls = 3

====
